---- MODULE Spec2Model ----
(***************************************************************************)
(* xtensor xgenerator (include/xtensor/xgenerator.hpp): a lazy             *)
(* multidimensional function of indices.  The module models one generator  *)
(* instance (its functor m_f and its shape m_shape), the calls of its      *)
(* public interface, and the result of the last call.                      *)
(***************************************************************************)
EXTENDS Integers, Sequences, FiniteSets, TLC

(* ---------------------------- bounds ---------------------------------- *)
\* longest shape of a generator
MaxDim == 2
\* largest extent of a generated shape
MaxExtent == 3
\* largest coordinate of a generated coordinate list
MaxCoord == 3
\* longest coordinate list given to an access function
MaxArgs == 3
\* longest new_shape given to reshape
MaxNewLen == 3

(* ---------------------------- inputs ---------------------------------- *)
SeqsUpTo(S, n) == UNION {[1..k -> S] : k \in 0..n}

\* the shape of the documented scenario, f(i,j,k) = i*100+k over (3,1,4)
ScenarioShape == <<3, 1, 4>>
ScenarioCoords == <<2, 5, 3>>

Shapes == SeqsUpTo(0..MaxExtent, MaxDim)
CoordLists == SeqsUpTo(0..MaxCoord, MaxArgs) \cup {ScenarioCoords}
NewShapes == SeqsUpTo((-1)..MaxExtent, MaxNewLen)
UnsignedShapes == SeqsUpTo(0..MaxExtent, MaxDim)

\* "enc" is a variadic functor whose value determines the coordinates it
\* received; "i100k" is the three-argument functor f(i,j,k) = i*100+k.
Functors == {"enc", "i100k"}
Generators == {<<"enc", s>> : s \in Shapes} \cup {<<"i100k", ScenarioShape>>}

\* what a read of memory that was never written, or that lies past the end
\* of the shape, may yield
GarbageVals == {0, MaxCoord + 1}

(* ------------------------- the index functor --------------------------- *)
EncBase == MaxCoord + 7

RECURSIVE Encode(_)
Encode(s) ==
    IF s = <<>> THEN 1
    ELSE Encode(SubSeq(s, 1, Len(s) - 1)) * EncBase + (s[Len(s)] + 1)

\* the functor accepts n arguments (a fixed-arity callable does not compile
\* with another count)
Accepts(f, n) == IF f = "i100k" THEN n = 3 ELSE TRUE

\* m_f(args...) and m_f.element(first, last)
Apply(f, c) == IF f = "i100k" THEN c[1] * 100 + c[3] ELSE Encode(c)

(* ------------------------- results of a call --------------------------- *)
NoResult ==
    [status |-> "ok", called |-> FALSE, passed |-> <<>>, value |-> 0,
     rf |-> "", rshape |-> <<>>, vshape |-> <<>>, written |-> {},
     flag |-> FALSE]

Invoke(f, c) ==
    [NoResult EXCEPT !.called = TRUE, !.passed = c, !.value = Apply(f, c)]

Fail(st) == [NoResult EXCEPT !.status = st]

(* --------------------------- collaborators ----------------------------- *)
RECURSIVE compute_size(_)
compute_size(s) ==
    IF s = <<>> THEN 1 ELSE s[1] * compute_size(Tail(s))

\* offset of the first checked coordinate: leading extras are not checked
Lead(s, c) == IF Len(c) > Len(s) THEN Len(c) - Len(s) ELSE 0

\* check_index(shape, args...): TRUE when no exception is thrown
check_index(s, c) ==
    \A k \in (Lead(s, c) + 1)..Len(c) :
        LET d == k - Lead(s, c) IN ~(c[k] >= s[d] /\ s[d] # 1)

\* check_element_index(shape, first, last): TRUE when no exception is thrown
check_element_index(s, c) == check_index(s, c)

\* check_access(shape, args...): TRUE when no exception is thrown
check_access(s, c) == Len(c) = Len(s) /\ check_index(s, c)

\* *xbounded_iterator(it, bound): the coordinate bounded by the extent it is
\* paired with; -1 stands for the wrapped value of 0 - 1
xbounded_iterator(x, b) == IF x < b THEN x ELSE b - 1

\* xt::broadcast_shape(input, output): the output shape after the call, or
\* <<-1>> when the shapes do not broadcast
BroadcastDim(i, o) == IF o = 1 THEN i ELSE IF i = 1 \/ i = o THEN o ELSE -1

xt_broadcast_shape(input, output) ==
    IF Len(output) < Len(input) THEN <<-1>>
    ELSE LET off == Len(output) - Len(input)
             out == [k \in 1..Len(output) |->
                        IF k <= off THEN output[k]
                        ELSE BroadcastDim(input[k - off], output[k])]
         IN IF \E k \in 1..Len(out) : out[k] = -1 THEN <<-1>> ELSE out

(* ------------------------- size and shape ------------------------------ *)
shape(s) == s

\* size() returning the number of extents instead of their product
size_len(s) == Len(s)

size(s) == compute_size(shape(s))

dimension(s) == Len(s)

layout == "dynamic"

(* --------------------------- element access ---------------------------- *)
\* adapt_index that never skips the leading coordinates: coordinate k is
\* adapted against dimension k
RECURSIVE adapt_index_front(_, _, _)
adapt_index_front(s, dim, c) ==
    IF c = <<>> THEN <<>>
    ELSE <<IF dim + 1 <= Len(s) /\ c[1] >= s[dim + 1] /\ s[dim + 1] = 1
           THEN 0 ELSE c[1]>>
         \o adapt_index_front(s, dim + 1, Tail(c))

\* adapt_index<dim>(arg, args...), dim counted from 0 as in the source
RECURSIVE adapt_index(_, _, _)
adapt_index(s, dim, c) ==
    IF c = <<>> THEN <<>>
    ELSE IF Len(c) > Len(s)
         THEN <<c[1]>> \o adapt_index(s, dim, Tail(c))
         ELSE <<IF c[1] >= s[dim + 1] /\ s[dim + 1] = 1 THEN 0 ELSE c[1]>>
              \o adapt_index(s, dim + 1, Tail(c))

\* operator() that forgets the broadcast adaptation
call_unadapted(f, s, dbg, c) ==
    IF dbg /\ ~check_index(shape(s), c) THEN Fail("runtime_error")
    ELSE Invoke(f, c)

\* operator()(args...); dbg: built with XTENSOR_ENABLE_ASSERT
call(f, s, dbg, c) ==
    IF dbg /\ ~check_index(shape(s), c) THEN Fail("runtime_error")
    ELSE Invoke(f, adapt_index(s, 0, c))

\* at() that forgets check_access
at_no_check(f, s, dbg, c) == call(f, s, dbg, c)

\* at() that delegates to unchecked() instead of operator()
at_unchecked(f, s, dbg, c) ==
    IF ~check_access(shape(s), c) THEN Fail("out_of_range")
    ELSE Invoke(f, c)

\* at(args...)
at(f, s, dbg, c) ==
    IF ~check_access(shape(s), c) THEN Fail("out_of_range")
    ELSE call(f, s, dbg, c)

\* unchecked(args...)
unchecked(f, s, dbg, c) == Invoke(f, c)

\* element(first, last); g: what the reads past shape().cend() yield
element(f, s, dbg, c, g) ==
    IF dbg /\ ~check_element_index(shape(s), c) THEN Fail("runtime_error")
    ELSE Invoke(f, [k \in 1..Len(c) |->
                       xbounded_iterator(c[k], IF k <= Len(s) THEN s[k]
                                               ELSE g[k - Len(s)])])

\* operator[](const OS& index)
subscript(f, s, dbg, c, g) == element(f, s, dbg, c, g)

\* operator[](std::initializer_list<I> index)
subscript_list(f, s, dbg, c, g) == element(f, s, dbg, c, g)

\* operator[](size_type i)
subscript_flat(f, s, dbg, i) == call(f, s, dbg, <<i>>)

(* ----------------------- broadcasting, steppers ------------------------ *)
broadcast_shape(s, target) ==
    LET out == xt_broadcast_shape(s, target) IN
    IF out = <<-1>> THEN Fail("broadcast_error")
    ELSE [NoResult EXCEPT !.vshape = out, !.flag = (s = target)]

has_linear_assign(strides) == FALSE

\* xindexed_stepper(this, offset[, end])
stepper_begin(s, target) ==
    [NoResult EXCEPT !.value = Len(target) - dimension(s), !.flag = FALSE]

stepper_end(s, target) ==
    [NoResult EXCEPT !.value = Len(target) - dimension(s), !.flag = TRUE]

(* ------------------------------ rebind --------------------------------- *)
\* build_generator that keeps the size of the shape but not its extents
build_generator_flat(s, func) ==
    [NoResult EXCEPT !.rf = func, !.rshape = <<compute_size(s)>>]

build_generator(s, func) ==
    [NoResult EXCEPT !.rf = func, !.rshape = s]

(* ------------------------------ reshape -------------------------------- *)
Abs(x) == IF x < 0 THEN 0 - x ELSE x

\* the loop body without "neg_idx = i"
shape_step_no_idx(st, O, j) ==
    LET dim == O[j + 1] IN
    IF dim < 0
    THEN IF st.asserts /\ ~(dim = -1 /\ st.neg_idx = 0)
         THEN [st EXCEPT !.failed = TRUE]
         ELSE [st EXCEPT !.accumulator = st.accumulator * dim]
    ELSE [st EXCEPT !.sh[j + 1] = dim, !.written = st.written \cup {j + 1},
                    !.accumulator = st.accumulator * dim]

\* one iteration of the loop of compute_shape(shape, std::true_type); i and
\* j advance together, so i = j; j counts from 0 as in the source
shape_step(st, O, j) ==
    LET dim == O[j + 1] IN
    IF dim < 0
    THEN IF st.asserts /\ ~(dim = -1 /\ st.neg_idx = 0)
         THEN [st EXCEPT !.failed = TRUE]
         ELSE [st EXCEPT !.neg_idx = j, !.accumulator = st.accumulator * dim]
    ELSE [st EXCEPT !.sh[j + 1] = dim, !.written = st.written \cup {j + 1},
                    !.accumulator = st.accumulator * dim]

RECURSIVE shape_loop(_, _, _)
shape_loop(st, O, j) ==
    IF j = Len(O) \/ st.failed THEN st
    ELSE shape_loop(shape_step(st, O, j), O, j + 1)

\* compute_shape(shape, std::true_type); g: the contents of sh before any
\* entry is written
compute_shape(s, dbg, O, g) ==
    LET st0 == [sh |-> g, written |-> {}, accumulator |-> 1, neg_idx |-> 0,
                failed |-> FALSE, asserts |-> dbg]
        st == shape_loop(st0, O, 0)
    IN  IF st.failed THEN st
        ELSE IF st.accumulator < 0
        THEN [st EXCEPT !.sh[st.neg_idx + 1] = size(s) \div Abs(st.accumulator),
                        !.written = st.written \cup {st.neg_idx + 1}]
        ELSE st

\* compute_shape(shape, std::false_type)
compute_shape_unsigned(O) == O

\* the entries of sh that compute_shape never writes
Unwritten(s, dbg, O) ==
    (1..Len(O)) \ compute_shape(s, dbg, O, [k \in 1..Len(O) |-> 0]).written

\* reshape that stores the new shape in *this
reshape_in_place(f, s, dbg, O, g) ==
    LET st == compute_shape(s, dbg, O, g) IN
    IF st.failed THEN [r |-> Fail("assertion"), this_f |-> f, this_shape |-> s]
    ELSE [r |-> [NoResult EXCEPT !.rf = f, !.rshape = s, !.vshape = st.sh,
                                  !.written = st.written],
          this_f |-> f, this_shape |-> st.sh]

\* reshape(shape) const &: the reshape_view over a copy of *this, and *this
\* after the call
reshape(f, s, dbg, O, g) ==
    LET st == compute_shape(s, dbg, O, g) IN
    IF st.failed THEN [r |-> Fail("assertion"), this_f |-> f, this_shape |-> s]
    ELSE [r |-> [NoResult EXCEPT !.rf = f, !.rshape = s, !.vshape = st.sh,
                                  !.written = st.written],
          this_f |-> f, this_shape |-> s]

\* reshape(shape) with an unsigned value type: the shape is forwarded
reshape_unsigned(f, s, O) ==
    [NoResult EXCEPT !.rf = f, !.rshape = s,
                     !.vshape = compute_shape_unsigned(O),
                     !.written = 1..Len(O)]

(* ------------------------------- state --------------------------------- *)
\* m_f, m_shape: the members of the generator; ctor_f, ctor_shape: the
\* arguments of its constructor; alive: the generator has not been consumed
\* by reshape() &&; dbg: the build defines XTENSOR_ENABLE_ASSERT; last: the
\* last call, its arguments and its result, until the caller drops it
VARIABLES m_f, m_shape, ctor_f, ctor_shape, alive, dbg, last

vars == <<m_f, m_shape, ctor_f, ctor_shape, alive, dbg, last>>

Idle == [op |-> "none", args |-> <<>>, r |-> NoResult]

Done(op, args, r) == last' = [op |-> op, args |-> args, r |-> r]

Ready == alive /\ last.op = "none"

Same == UNCHANGED <<m_f, m_shape, ctor_f, ctor_shape, alive, dbg>>

Init ==
    /\ \E gen \in Generators :
        /\ m_f = gen[1] /\ m_shape = gen[2]
        /\ ctor_f = gen[1] /\ ctor_shape = gen[2]
    /\ alive = TRUE
    /\ dbg \in BOOLEAN
    /\ last = Idle

\* xgenerator(f, shape): a new generator replaces the one under study
Construct ==
    /\ last.op = "none"
    /\ \E gen \in Generators :
        /\ m_f' = gen[1] /\ m_shape' = gen[2]
        /\ ctor_f' = gen[1] /\ ctor_shape' = gen[2]
    /\ alive' = TRUE
    /\ UNCHANGED <<dbg, last>>

\* the caller drops the result of the last call
Drop ==
    /\ last.op # "none"
    /\ last' = Idle
    /\ Same

Size ==
    /\ Ready
    /\ Done("size", <<>>, [NoResult EXCEPT !.value = size(m_shape)])
    /\ Same

Dimension ==
    /\ Ready
    /\ Done("dimension", <<>>, [NoResult EXCEPT !.value = dimension(m_shape)])
    /\ Same

Shape ==
    /\ Ready
    /\ Done("shape", <<>>, [NoResult EXCEPT !.vshape = shape(m_shape)])
    /\ Same

Layout ==
    /\ Ready
    /\ Done("layout", <<>>, [NoResult EXCEPT !.rf = layout])
    /\ Same

Functor ==
    /\ Ready
    /\ Done("functor", <<>>, [NoResult EXCEPT !.rf = m_f])
    /\ Same

Call ==
    /\ Ready
    /\ \E c \in CoordLists :
        /\ Accepts(m_f, Len(c))
        /\ Done("call", c, call(m_f, m_shape, dbg, c))
    /\ Same

At ==
    /\ Ready
    /\ \E c \in CoordLists :
        /\ Accepts(m_f, Len(c))
        /\ Done("at", c, at(m_f, m_shape, dbg, c))
    /\ Same

Unchecked ==
    /\ Ready
    /\ \E c \in CoordLists :
        /\ Accepts(m_f, Len(c))
        /\ Done("unchecked", c, unchecked(m_f, m_shape, dbg, c))
    /\ Same

\* what the reads past the end of the shape may yield for c
PastEnd(s, c) ==
    [1..(IF Len(c) > Len(s) THEN Len(c) - Len(s) ELSE 0) -> GarbageVals]

Element ==
    /\ Ready
    /\ \E c \in CoordLists : \E g \in PastEnd(m_shape, c) :
        /\ Accepts(m_f, Len(c))
        /\ Done("element", c, element(m_f, m_shape, dbg, c, g))
    /\ Same

Subscript ==
    /\ Ready
    /\ \E c \in CoordLists : \E g \in PastEnd(m_shape, c) :
        /\ Accepts(m_f, Len(c))
        /\ Done("subscript", c, subscript(m_f, m_shape, dbg, c, g))
    /\ Same

SubscriptList ==
    /\ Ready
    /\ \E c \in CoordLists : \E g \in PastEnd(m_shape, c) :
        /\ Accepts(m_f, Len(c))
        /\ Done("subscript_list", c, subscript_list(m_f, m_shape, dbg, c, g))
    /\ Same

SubscriptFlat ==
    /\ Ready
    /\ \E i \in 0..MaxCoord :
        /\ Accepts(m_f, 1)
        /\ Done("subscript_flat", <<i>>, subscript_flat(m_f, m_shape, dbg, i))
    /\ Same

BroadcastShape ==
    /\ Ready
    /\ \E target \in Shapes :
        Done("broadcast_shape", target, broadcast_shape(m_shape, target))
    /\ Same

HasLinearAssign ==
    /\ Ready
    /\ \E strides \in Shapes :
        Done("has_linear_assign", strides,
             [NoResult EXCEPT !.flag = has_linear_assign(strides)])
    /\ Same

\* the target of a stepper is a shape this generator was broadcast to
StepperBegin ==
    /\ Ready
    /\ \E target \in Shapes :
        /\ Len(target) >= dimension(m_shape)
        /\ Done("stepper_begin", target, stepper_begin(m_shape, target))
    /\ Same

StepperEnd ==
    /\ Ready
    /\ \E target \in Shapes :
        /\ Len(target) >= dimension(m_shape)
        /\ Done("stepper_end", target, stepper_end(m_shape, target))
    /\ Same

BuildGenerator ==
    /\ Ready
    /\ \E func \in Functors :
        Done("build_generator", <<func>>, build_generator(m_shape, func))
    /\ Same

Reshape ==
    /\ Ready
    /\ \E O \in NewShapes : \E g0 \in [Unwritten(m_shape, dbg, O) -> GarbageVals] :
        LET g == [k \in 1..Len(O) |-> IF k \in DOMAIN g0 THEN g0[k] ELSE 0]
            res == reshape(m_f, m_shape, dbg, O, g)
        IN  /\ Done("reshape", O, res.r)
            /\ m_f' = res.this_f
            /\ m_shape' = res.this_shape
    /\ UNCHANGED <<ctor_f, ctor_shape, alive, dbg>>

\* reshape(shape) &&: the generator is moved into the view; what it holds
\* afterwards is unspecified (its shape is either kept or emptied)
ReshapeRvalue ==
    /\ Ready
    /\ \E O \in NewShapes : \E g0 \in [Unwritten(m_shape, dbg, O) -> GarbageVals] :
        LET g == [k \in 1..Len(O) |-> IF k \in DOMAIN g0 THEN g0[k] ELSE 0]
            res == reshape(m_f, m_shape, dbg, O, g)
        IN  /\ Done("reshape_rvalue", O, res.r)
            /\ m_shape' \in (IF res.r.status = "ok" THEN {m_shape, <<>>}
                             ELSE {m_shape})
    /\ alive' = FALSE
    /\ UNCHANGED <<m_f, ctor_f, ctor_shape, dbg>>

ReshapeUnsigned ==
    /\ Ready
    /\ \E O \in UnsignedShapes :
        Done("reshape_unsigned", O, reshape_unsigned(m_f, m_shape, O))
    /\ Same

Next ==
    \/ Construct \/ Drop
    \/ Size \/ Dimension \/ Shape \/ Layout \/ Functor
    \/ Call \/ At \/ Unchecked
    \/ Element \/ Subscript \/ SubscriptList \/ SubscriptFlat
    \/ BroadcastShape \/ HasLinearAssign \/ StepperBegin \/ StepperEnd
    \/ BuildGenerator \/ Reshape \/ ReshapeRvalue \/ ReshapeUnsigned

Spec == Init /\ [][Next]_vars

(* ------------------------------ claims --------------------------------- *)
AccessOp(op) == last.op = op /\ Len(last.args) >= dimension(ctor_shape)

LastN(c, n) == SubSeq(c, Len(c) - n + 1, Len(c))

\* the broadcast rule, for a coordinate list as long as the shape
Broadcast(s, c) == [d \in 1..Len(s) |-> IF s[d] = 1 /\ c[d] >= 1 THEN 0 ELSE c[d]]

\* C1 as stated: operator()(C) with len(C) >= dimension() invokes the functor
\* on only the last dimension() coordinates of C, broadcast-adapted.
C1_Dropped ==
    (AccessOp("call") /\ last.r.called) =>
        /\ last.r.passed = Broadcast(m_shape, LastN(last.args, Len(m_shape)))
        /\ last.r.value = Apply(m_f, Broadcast(m_shape, LastN(last.args, Len(m_shape))))

\* C1 amended: operator()(C) with len(C) >= dimension() invokes the functor on
\* all len(C) coordinates, the leading len(C) - dimension() ones unchanged and
\* the last dimension() ones broadcast-adapted, and returns its value; only a
\* build with XTENSOR_ENABLE_ASSERT can reject the call, and only for a
\* coordinate out of range.
C1_AllPassed ==
    AccessOp("call") =>
        LET n == Len(m_shape)
            lead == Len(last.args) - n
            all == SubSeq(last.args, 1, lead) \o Broadcast(m_shape, LastN(last.args, n))
        IN  /\ last.r.called =>
                /\ last.r.status = "ok"
                /\ last.r.passed = all
                /\ last.r.value = Apply(m_f, all)
            /\ ~last.r.called =>
                /\ dbg
                /\ \E d \in 1..n : last.args[lead + d] >= m_shape[d] /\ m_shape[d] # 1

C1_Witness ==
    /\ AccessOp("call") /\ last.r.called
    /\ Len(last.args) > Len(m_shape)
    /\ last.r.passed # last.args
    /\ Len(last.r.passed) = Len(last.args)

\* C2: whenever operator() invokes the functor, the coordinate aligned with
\* dimension d (coordinate d + len(C) - dimension()) is passed as 0 if
\* shape[d] = 1 and it is >= 1, and unchanged otherwise; shape (3,1,4) with
\* f(i,j,k) = i*100+k gives 203 at (2,5,3).
C2_Adaptation ==
    /\ (AccessOp("call") /\ last.r.called) =>
        LET lead == Len(last.args) - Len(m_shape) IN
        \A d \in 1..Len(m_shape) :
            last.r.passed[lead + d] =
                IF m_shape[d] = 1 /\ last.args[lead + d] >= 1 THEN 0
                ELSE last.args[lead + d]
    /\ (last.op = "call" /\ m_f = "i100k" /\ m_shape = ScenarioShape
            /\ last.args = ScenarioCoords) =>
        (last.r.called /\ last.r.passed = <<2, 0, 3>> /\ last.r.value = 203)

C2_Witness ==
    /\ last.op = "call" /\ m_f = "i100k" /\ m_shape = ScenarioShape
    /\ last.args = ScenarioCoords /\ last.r.value = 203

IsReshape == last.op \in {"reshape", "reshape_rvalue"}

Placeholders(O) == {k \in 1..Len(O) : O[k] = -1}

RECURSIVE ExplicitProduct(_)
ExplicitProduct(O) ==
    IF O = <<>> THEN 1
    ELSE (IF O[Len(O)] = -1 THEN 1 ELSE O[Len(O)])
         * ExplicitProduct(SubSeq(O, 1, Len(O) - 1))

\* C3: reshape with exactly one placeholder -1 and positive explicit extents
\* whose product P divides size() yields the explicit extents unchanged and
\* size()/P at the placeholder; (2,3) reshaped with {-1,1} is (6,1).
C3_Inferred ==
    /\ (/\ IsReshape
        /\ Cardinality(Placeholders(last.args)) = 1
        /\ \A k \in 1..Len(last.args) : last.args[k] = -1 \/ last.args[k] > 0
        /\ size(ctor_shape) % ExplicitProduct(last.args) = 0) =>
            /\ last.r.status = "ok"
            /\ last.r.vshape =
                [k \in 1..Len(last.args) |->
                    IF last.args[k] = -1
                    THEN size(ctor_shape) \div ExplicitProduct(last.args)
                    ELSE last.args[k]]
    /\ (IsReshape /\ ctor_shape = <<2, 3>> /\ last.args = <<-1, 1>>) =>
            last.r.vshape = <<6, 1>>

C3_Witness ==
    /\ IsReshape /\ ctor_shape = <<2, 3>> /\ last.args = <<3, -1>>
    /\ last.r.vshape = <<3, 2>>

\* C4: in a build whose assertions are enabled, reshape fails with an
\* assertion whenever new_shape holds more than one placeholder -1, wherever
\* they are; it never returns a shape then.
C4_TwoPlaceholders ==
    (dbg /\ IsReshape /\ Cardinality(Placeholders(last.args)) > 1) =>
        last.r.status = "assertion"

OutOfBounds(s, c) == \E d \in 1..Len(s) : c[d] >= s[d] /\ s[d] # 1

\* C6: at(C) with len(C) = dimension() fails with out_of_range iff some
\* coordinate is >= the extent of a dimension whose extent is not 1; otherwise
\* it returns the value of operator()(C).
C6_Bounds ==
    (last.op = "at" /\ Len(last.args) = dimension(m_shape)) =>
        IF OutOfBounds(m_shape, last.args)
        THEN last.r.status = "out_of_range" /\ ~last.r.called
        ELSE /\ last.r.status = "ok" /\ last.r.called
             /\ last.r.value = Apply(m_f, Broadcast(m_shape, last.args))
             /\ last.r = call(m_f, m_shape, dbg, last.args)

C6_Witness ==
    /\ last.op = "at" /\ m_shape = <<1, 3>> /\ last.args = <<2, 2>>
    /\ last.r.status = "ok" /\ last.r.passed = <<0, 2>>

RECURSIVE ProductOfExtents(_)
ProductOfExtents(s) ==
    IF s = <<>> THEN 1
    ELSE ProductOfExtents(SubSeq(s, 1, Len(s) - 1)) * s[Len(s)]

\* C7: size() is the product of the extents (0 if an extent is 0, 1 for the
\* empty shape) and dimension() is the number of extents, in every state.
C7_SizeDimension ==
    /\ size(m_shape) = ProductOfExtents(m_shape)
    /\ (\E k \in 1..Len(m_shape) : m_shape[k] = 0) => size(m_shape) = 0
    /\ m_shape = <<>> => size(m_shape) = 1
    /\ dimension(m_shape) = Len(m_shape)
    /\ last.op = "size" => last.r.value = ProductOfExtents(m_shape)
    /\ last.op = "dimension" => last.r.value = Len(m_shape)

C7_Witness == last.op = "size" /\ m_shape = <<2, 3>> /\ last.r.value = 6

\* C8: while the generator is alive, its functor and its shape are the ones
\* it was constructed with, whatever calls were made on it.
C8_Frame == alive => (m_f = ctor_f /\ m_shape = ctor_shape)

C8_Witness ==
    /\ alive /\ last.op = "reshape" /\ last.r.status = "ok"
    /\ last.r.vshape # m_shape /\ m_shape = ctor_shape

\* C9: build_generator(func) returns a generator with the shape of this one,
\* extent by extent, and func as its functor.
C9_Rebind ==
    last.op = "build_generator" =>
        (last.r.rshape = m_shape /\ last.r.rf = last.args[1])

C9_Witness ==
    /\ last.op = "build_generator" /\ m_shape = <<2, 3>>
    /\ last.r.rshape = <<2, 3>> /\ last.r.rf # m_f

\* C10: element(first, last), operator[](C) and operator[]({C}) with
\* len(C) >= dimension() return what operator()(C...) returns, and
\* operator[](i) returns operator()(i).
C10_Equivalent ==
    /\ (\/ AccessOp("element") \/ AccessOp("subscript")
        \/ AccessOp("subscript_list")) =>
            /\ last.r.status = call(m_f, m_shape, dbg, last.args).status
            /\ last.r.value = call(m_f, m_shape, dbg, last.args).value
    /\ last.op = "subscript_flat" =>
            last.r = call(m_f, m_shape, dbg, last.args)

\* C11: for a new_shape of entries -1 or non-negative with at most one -1,
\* the accumulated product of compute_shape is negative iff a placeholder is
\* present; so with a placeholder present (also next to an explicit extent
\* 0) the placeholder entry of the returned shape is assigned and no entry
\* is left unwritten.
C11_PlaceholderWritten ==
    (/\ IsReshape
     /\ \A k \in 1..Len(last.args) : last.args[k] >= -1
     /\ Cardinality(Placeholders(last.args)) <= 1) =>
        LET st == compute_shape(ctor_shape, dbg, last.args,
                                [k \in 1..Len(last.args) |-> 0])
        IN  /\ (st.accumulator < 0) <=> (Placeholders(last.args) # {})
            /\ Placeholders(last.args) # {} =>
                /\ last.r.status = "ok"
                /\ Placeholders(last.args) \subseteq last.r.written
                /\ last.r.written = 1..Len(last.args)
====
